---- MODULE Spec2Model ----
(***************************************************************************)
(* A model of the reqproxy repository: the Streamify duplex bridge         *)
(* (streaming/streamify.ts), the ProxyServer dispatcher                    *)
(* (proxy/ProxyServer.ts) and the tracers (tracer/*.ts).                   *)
(*                                                                         *)
(* Each subsystem has its own specification over the shared variables:     *)
(*   SpecBridgeR, SpecBridgeW, SpecBridgeWFair, SpecAttach                 *)
(*               the Streamify state machine and the streams around it     *)
(*   SpecProxy, SpecProxy2   one ProxyServer, and two in flight together   *)
(*   SpecBuild   the body captured by the constructor and by dispatch      *)
(*   SpecTrace, SpecTraceHooks   ZipkinTracerImpl on the shared tracer     *)
(***************************************************************************)
EXTENDS Integers, Sequences, FiniteSets, TLC

(***************************************************************************)
(* Bounds of the model.                                                    *)
(***************************************************************************)
\* _write calls issued on one bridge
MaxWrites == 3
\* successful addSource calls, and successful addDest calls, on one bridge
MaxAttach == 2
\* chunks the source streams produce, all together
MaxChunks == 2
\* 'end' signals the source streams fire
MaxEndSignals == 2

\* the clock runs from 0 to MaxTime
MaxTime == 3
\* chunks in one upstream response body
MaxBody == 2

\* the streams that may be handed to the bridge
Sources == {"s1", "s2"}
Dests == {"d1", "d2"}
\* the sizes a read may request; 0 stands for "undefined"
Sizes == {1, 2}

None == "none"
\* the end-of-stream marker in a consumer's log
END == <<"end", 0>>
\* the end marker in a dest's log of received writes
DestEnd == 0

SOURCE_EVENTS == {"error", "close"}
DEST_EVENTS == {"drain", "close"}

\* ---- ProxyServer and the tracers
\* the requests in flight
Reqs == {"A", "B"}
\* the tracers handed to ProxyServer, in registration order
Tracers == <<"zipkin", "console">>
\* the upstream status codes tried
Statuses == {200, 399, 400, 404}
\* the sinks http-proxy hands to the 'error' listener
SinkKinds == {"http", "socket"}
\* a number field that holds undefined
Unset == -1
\* statuses from here on get the diagnostic body
ErrorStatusFrom == 400
\* the status assumed when the upstream response carries none
MissingStatus == 700
\* the status of the response written on a transport error
ProxyErrorStatus == 500
\* the status Node sends when none was set
DefaultStatus == 200

\* An onreadable closure is known by the size it captured and by whether it is
\* the function object held in _source.onreadable (live): removeListener can
\* name no other closure.
NoClosure == [size |-> 0, live |-> FALSE]

VARIABLES
  \* ---- Streamify fields
  _source,        \* the attached source stream, or None
  onreadable,     \* _source.onreadable: the closure of the last _read
  _sourceRead,    \* the size remembered by a _read without a source (0: undefined)
  _dest,          \* the attached dest stream, or None
  _destWritten,   \* the pending-write queue: write ids in push order
  \* ---- the Duplex base class state of the bridge
  rEnded,         \* push(null) was received (readable state "ended")
  rReading,       \* a _read issued by the base class is outstanding
  rPushAfterEnd,  \* a push of data after end-of-stream was refused
  consumed,       \* what the bridge's consumer received, in order
  wState,         \* "open", "ending" (end() called), "finished"
  \* ---- the source streams (environment)
  srcData,        \* per source: chunks buffered and not yet read
  srcProduced,    \* per source: chunks produced so far
  srcFin,         \* per source: the producer has finished
  endSignals,     \* times a source fired 'end'
  relayL,         \* sources carrying the bridge's error/close relay listeners
  endL,           \* per source: number of onend listeners registered
  readableL,      \* per source: the once('readable') closures, in order
  \* ---- the dest streams (environment)
  destL,          \* dests carrying the bridge's drain/close relay listeners
  destLog,        \* per dest: writes received (and DestEnd), in order
  destInflight,   \* per dest: writes accepted, completion not yet signalled
  cbCount,        \* per write id: completion-callback invocations
  nextW,          \* _write calls so far
  \* ---- history
  lastCall,       \* the last operation and how it returned
  attachHist,     \* the dests attached so far, in order
  srcAttached,    \* successful addSource calls so far
  wEpoch,         \* per write: Len(attachHist) when it was issued
  wQueued,        \* per write: issued while no dest was attached
  endWhileAttached, \* an 'end' signal fired on the source then attached
  \* ---- ProxyServer
  now,            \* performance.now()
  px,             \* per request: its ProxyServer, sink, upstream and log
  \* ---- ProxyServer, outbound body
  bd,             \* the request, this.method, this.body and options.buffer
  \* ---- ZipkinTracerImpl
  tr,             \* per request: its inbound headers and this.traceId
  ctxId,          \* the id current on the module's zipkinTracer
  draws,          \* identifiers drawn from zipkin's generator so far
  zk,             \* per request: the end and close hooks that ran
  recorded,       \* what zipkinTracer recorded: request, hook, id in force
  \* ---- a tracer that fails
  fault           \* the hook that throws: <<point, tracer>>, or NoFault

bridgeVars == <<_source, onreadable, _sourceRead, _dest, _destWritten, rEnded,
                rReading, rPushAfterEnd, consumed, wState, srcData,
                srcProduced, srcFin, endSignals, relayL, endL, readableL,
                destL, destLog, destInflight, cbCount, nextW, lastCall,
                attachHist, srcAttached, wEpoch, wQueued, endWhileAttached>>

proxyVars == <<now, px>>

buildVars == <<bd>>

traceVars == <<tr, ctxId, draws>>

hookVars == <<zk, recorded>>

faultVars == <<fault>>

vars == <<bridgeVars, proxyVars, buildVars, traceVars, hookVars, faultVars>>

Call(op, err) == [op |-> op, arg |-> None, err |-> err]
\* an event of stream s relayed through the bridge's own event surface
Emit(ev, s) == [op |-> ev, arg |-> s, err |-> None]

InitBridge ==
  /\ _source = None /\ onreadable = NoClosure /\ _sourceRead = 0
  /\ _dest = None /\ _destWritten = <<>>
  /\ rEnded = FALSE /\ rReading = FALSE /\ rPushAfterEnd = FALSE
  /\ consumed = <<>> /\ wState = "open"
  /\ srcData = [s \in Sources |-> <<>>]
  /\ srcProduced = [s \in Sources |-> 0]
  /\ srcFin = [s \in Sources |-> FALSE]
  /\ endSignals = 0
  /\ relayL = {} /\ endL = [s \in Sources |-> 0]
  /\ readableL = [s \in Sources |-> <<>>]
  /\ destL = {} /\ destLog = [d \in Dests |-> <<>>]
  /\ destInflight = [d \in Dests |-> <<>>]
  /\ cbCount = [w \in 1..MaxWrites |-> 0]
  /\ nextW = 0
  /\ lastCall = Call("new", None)
  /\ attachHist = <<>> /\ srcAttached = 0
  /\ wEpoch = [w \in 1..MaxWrites |-> 0]
  /\ wQueued = [w \in 1..MaxWrites |-> FALSE]
  /\ endWhileAttached = FALSE

\* ResponseDetails before the 'proxyReq' listener builds it
NoDetails == [statusCode |-> Unset, startTime |-> Unset,
              firstByteTime |-> Unset, endTime |-> Unset, closeTime |-> Unset]

\* The sink before anything was written to it.
NewSink == [status |-> Unset, marker |-> FALSE, ctype |-> FALSE,
            headersSent |-> FALSE, body |-> <<>>, ended |-> FALSE]

NewRequest ==
  [stage |-> "new", kind |-> "http", details |-> NoDetails, sink |-> NewSink,
   upLen |-> 0, upBody |-> <<>>, piping |-> FALSE, listening |-> FALSE,
   endFired |-> FALSE, closeFired |-> FALSE, errFired |-> FALSE,
   uncaught |-> FALSE, log |-> <<>>, assigned |-> <<>>]

InitProxy ==
  /\ now = 0
  /\ px = [r \in Reqs |-> NewRequest]

\* the body before the constructor captured anything: this.body = ""
NoBody == [kind |-> "text", text |-> ""]

\* request.payload undefined
Absent == [type |-> "undefined", cls |-> None, val |-> ""]

\* proxyOptions.buffer not set
NoBuffer == [kind |-> None]

InitBuild ==
  bd = [stage |-> "none", rawMethod |-> None, method |-> None,
        payload |-> Absent, body |-> NoBody, buffer |-> NoBuffer,
        pushed |-> <<>>, ended |-> FALSE, sent |-> <<>>, endEmitted |-> FALSE]

\* the requests a ZipkinTracerImpl is made for (one tracer per request)
TraceReqs == {"A", "B", "C"}

\* private traceId: TraceId | null = null
NoTraceId == [traceId |-> None, spanId |-> None, parentId |-> None]

\* a request before it arrived: headers undefined, traceId null
InitTrace ==
  /\ tr = [r \in TraceReqs |->
            [stage |-> "none",
             headers |-> [traceid |-> None, spanid |-> None, parentid |-> None],
             traceId |-> NoTraceId]]
  /\ ctxId = NoTraceId
  /\ draws = 0

\* no hook of the distributed tracer has run
InitHooks ==
  /\ zk = [r \in TraceReqs |-> [end |-> FALSE, close |-> FALSE]]
  /\ recorded = <<>>

\* every hook returns
NoFault == <<None, None>>

InitFault == fault = NoFault

Init ==
  InitBridge /\ InitProxy /\ InitBuild /\ InitTrace /\ InitHooks /\ InitFault

(***************************************************************************)
(* Streamify, read side.                                                   *)
(***************************************************************************)
\* The part of the state an onreadable closure works on.
ReadState == [data |-> srcData, rl |-> readableL, consumed |-> consumed,
              ended |-> rEnded, reading |-> rReading, pae |-> rPushAfterEnd]

\* Readable.read(size) of a source stream: how many buffered chunks it hands
\* out. All of them when size is undefined; size of them when that many are
\* buffered; the rest when the producer has finished; otherwise none (null).
SrcReadLen(buf, size, fin) ==
  IF size = 0 THEN Len(buf)
  ELSE IF Len(buf) >= size THEN size
  ELSE IF fin THEN Len(buf)
  ELSE 0

\* Duplex.push(data): refused once end-of-stream was pushed, else handed on
\* to the consumer; either way the outstanding _read is answered.
Push(st, data) ==
  IF st.ended
    THEN [st EXCEPT !.pae = TRUE, !.reading = FALSE]
    ELSE [st EXCEPT !.consumed = @ \o data, !.reading = FALSE]

\* Duplex.push(null): marks end-of-stream, once.
PushNull(st) ==
  IF st.ended
    THEN [st EXCEPT !.reading = FALSE]
    ELSE [st EXCEPT !.ended = TRUE, !.reading = FALSE]

\* The closure built by _read, called with src the value of this._source at
\* the time of the call.
Onreadable(st, src, c) ==
  IF src = None THEN st
  ELSE LET n == SrcReadLen(st.data[src], c.size, srcFin[src]) IN
    IF n > 0
      THEN Push([st EXCEPT !.data[src] = SubSeq(@, n + 1, Len(@))],
                SubSeq(st.data[src], 1, n))
      ELSE [st EXCEPT !.rl[src] = Append(@, c)]

\* The listeners of one 'readable' event, called in registration order.
RECURSIVE FireReadable(_, _, _)
FireReadable(st, src, ls) ==
  IF ls = <<>> THEN st
  ELSE FireReadable(Onreadable(st, src, Head(ls)), src, Tail(ls))

\* Mutant of Onend: the listener emits 'end' itself instead of pushing null.
Onend_EmitsEnd(st) ==
  [st EXCEPT !.consumed = Append(@, END), !.ended = TRUE]

\* onend: the end-of-source listener installed by addSource.
Onend(st) == PushNull(st)

SetReadState(st) ==
  /\ srcData' = st.data /\ readableL' = st.rl /\ consumed' = st.consumed
  /\ rEnded' = st.ended /\ rReading' = st.reading /\ rPushAfterEnd' = st.pae

\* ls without the first closure equal to c (EventEmitter.removeListener).
RECURSIVE RemoveListener(_, _)
RemoveListener(ls, c) ==
  IF ls = <<>> THEN <<>>
  ELSE IF Head(ls) = c THEN Tail(ls)
  ELSE <<Head(ls)>> \o RemoveListener(Tail(ls), c)

writeSide == <<_dest, _destWritten, wState, destL, destLog, destInflight,
               cbCount, nextW, attachHist, wEpoch, wQueued>>
readSide == <<_source, onreadable, _sourceRead, rEnded, rReading,
              rPushAfterEnd, consumed, srcData, srcProduced, srcFin,
              endSignals, relayL, endL, readableL, srcAttached,
              endWhileAttached>>

\* The listener lists once _source.onreadable is overwritten or deleted: no
\* registered closure is the held one any more.
Stale(rl) ==
  [s \in Sources |-> [i \in 1..Len(rl[s]) |-> [rl[s][i] EXCEPT !.live = FALSE]]]

\* _read(size), as the body shared by the base class's call and addSource's.
ReadBody(st, src, size) ==
  LET c == [size |-> size, live |-> TRUE] IN
  /\ onreadable' = c
  /\ SetReadState(Onreadable([st EXCEPT !.rl = Stale(@)], src, c))

\* _read(size), called by the Duplex base class when its consumer wants data:
\* never while an earlier _read is unanswered, never after end-of-stream.
Read(size) ==
  /\ ~rReading /\ ~rEnded
  /\ lastCall' = Call("read", None)
  /\ IF _source # None
       THEN /\ ReadBody([ReadState EXCEPT !.reading = TRUE], _source, size)
            /\ UNCHANGED _sourceRead
       ELSE /\ _sourceRead' = size
            /\ rReading' = TRUE
            /\ UNCHANGED <<onreadable, srcData, readableL, consumed,
                           rEnded, rPushAfterEnd>>
  /\ UNCHANGED <<_source, srcProduced, srcFin, endSignals, relayL, endL,
                 srcAttached, endWhileAttached>>
  /\ UNCHANGED writeSide

\* Mutant of AddSource: the closing call of _read is missing.
AddSource_NoPull(s) ==
  /\ IF _source # None
       THEN /\ lastCall' = Call("addSource", "AlreadyAttached")
            /\ UNCHANGED readSide
       ELSE /\ srcAttached < MaxAttach
            /\ lastCall' = Call("addSource", None)
            /\ _source' = s
            /\ relayL' = relayL \cup {s}
            /\ endL' = [endL EXCEPT ![s] = @ + 1]
            /\ srcAttached' = srcAttached + 1
            /\ UNCHANGED <<onreadable, srcData, readableL, consumed, rEnded,
                           rReading, rPushAfterEnd>>
            /\ UNCHANGED <<_sourceRead, srcProduced, srcFin, endSignals,
                           endWhileAttached>>
  /\ UNCHANGED writeSide

\* addSource(stream)
AddSource(s) ==
  /\ IF _source # None
       THEN /\ lastCall' = Call("addSource", "AlreadyAttached")
            /\ UNCHANGED readSide
       ELSE /\ srcAttached < MaxAttach
            /\ lastCall' = Call("addSource", None)
            /\ _source' = s
            /\ relayL' = relayL \cup {s}
            /\ endL' = [endL EXCEPT ![s] = @ + 1]
            /\ srcAttached' = srcAttached + 1
            /\ ReadBody(ReadState, s, _sourceRead)
            /\ UNCHANGED <<_sourceRead, srcProduced, srcFin, endSignals,
                           endWhileAttached>>
  /\ UNCHANGED writeSide

\* removeSource()
RemoveSource ==
  /\ IF _source = None
       THEN /\ lastCall' = Call("removeSource", "NotAttached")
            /\ UNCHANGED readSide
       ELSE /\ lastCall' = Call("removeSource", None)
            /\ relayL' = relayL \ {_source}
            /\ readableL' = Stale([readableL EXCEPT
                 ![_source] = RemoveListener(@, onreadable)])
            /\ endL' = [endL EXCEPT ![_source] = IF @ > 0 THEN @ - 1 ELSE 0]
            /\ _source' = None
            /\ onreadable' = NoClosure
            /\ UNCHANGED <<_sourceRead, rEnded, rReading, rPushAfterEnd,
                           consumed, srcData, srcProduced, srcFin, endSignals,
                           srcAttached, endWhileAttached>>
  /\ UNCHANGED writeSide

(***************************************************************************)
(* The source streams.                                                     *)
(***************************************************************************)
RECURSIVE SumOver(_, _)
SumOver(f, S) ==
  IF S = {} THEN 0
  ELSE LET x == CHOOSE y \in S : TRUE IN f[x] + SumOver(f, S \ {x})

TotalProduced == SumOver(srcProduced, Sources)

\* the producer of s buffers one more chunk
SourceProduce(s) ==
  /\ ~srcFin[s] /\ TotalProduced < MaxChunks
  /\ srcProduced' = [srcProduced EXCEPT ![s] = @ + 1]
  /\ srcData' = [srcData EXCEPT ![s] = Append(@, <<s, srcProduced[s] + 1>>)]
  /\ lastCall' = Call("event", None)
  /\ UNCHANGED <<_source, onreadable, _sourceRead, rEnded, rReading,
                 rPushAfterEnd, consumed, srcFin, endSignals, relayL, endL,
                 readableL, srcAttached, endWhileAttached>>
  /\ UNCHANGED writeSide

\* the producer of s finishes
SourceFinish(s) ==
  /\ ~srcFin[s]
  /\ srcFin' = [srcFin EXCEPT ![s] = TRUE]
  /\ lastCall' = Call("event", None)
  /\ UNCHANGED <<_source, onreadable, _sourceRead, rEnded, rReading,
                 rPushAfterEnd, consumed, srcData, srcProduced, endSignals,
                 relayL, endL, readableL, srcAttached,
                 endWhileAttached>>
  /\ UNCHANGED writeSide

\* s fires 'readable': its once-listeners are taken off and called in order
SourceReadable(s) ==
  /\ readableL[s] # <<>>
  /\ SetReadState(FireReadable([ReadState EXCEPT !.rl[s] = <<>>], _source,
                               readableL[s]))
  /\ lastCall' = Call("event", None)
  /\ UNCHANGED <<_source, onreadable, _sourceRead, srcProduced, srcFin,
                 endSignals, relayL, endL, srcAttached,
                 endWhileAttached>>
  /\ UNCHANGED writeSide

\* s fires 'end' (its buffer is drained); a source may fire it more than once
SourceEnd(s) ==
  /\ srcFin[s] /\ srcData[s] = <<>> /\ endSignals < MaxEndSignals
  /\ endSignals' = endSignals + 1
  /\ endWhileAttached' = (endWhileAttached \/ _source = s)
  /\ IF endL[s] > 0
       THEN SetReadState(Onend(ReadState))
       ELSE UNCHANGED <<srcData, readableL, consumed, rEnded, rReading,
                        rPushAfterEnd>>
  /\ lastCall' = Call("event", None)
  /\ UNCHANGED <<_source, onreadable, _sourceRead, srcProduced, srcFin,
                 relayL, endL, srcAttached>>
  /\ UNCHANGED writeSide

\* s fires 'error' or 'close': relayed through the bridge when it listens
SourceEvent(s, ev) ==
  /\ s \in relayL
  /\ lastCall' = Emit(ev, s)
  /\ UNCHANGED readSide
  /\ UNCHANGED writeSide

\* the base class emits 'end' to the consumer once end-of-stream was pushed
EmitEnd ==
  /\ rEnded /\ \A i \in 1..Len(consumed) : consumed[i] # END
  /\ consumed' = Append(consumed, END)
  /\ lastCall' = Call("event", None)
  /\ UNCHANGED <<_source, onreadable, _sourceRead, rEnded, rReading,
                 rPushAfterEnd, srcData, srcProduced, srcFin, endSignals,
                 relayL, endL, readableL, srcAttached,
                 endWhileAttached>>
  /\ UNCHANGED writeSide

(***************************************************************************)
(* Streamify, write side.                                                  *)
(***************************************************************************)
\* _write(chunk, encoding, callback); the write id stands for the triple.
Write ==
  LET w == nextW + 1 IN
  /\ nextW < MaxWrites /\ wState = "open"
  /\ nextW' = w
  /\ IF _dest # None
       THEN /\ destLog' = [destLog EXCEPT ![_dest] = Append(@, w)]
            /\ destInflight' = [destInflight EXCEPT ![_dest] = Append(@, w)]
            /\ UNCHANGED _destWritten
       ELSE /\ _destWritten' = Append(_destWritten, w)
            /\ UNCHANGED <<destLog, destInflight>>
  /\ wEpoch' = [wEpoch EXCEPT ![w] = Len(attachHist)]
  /\ wQueued' = [wQueued EXCEPT ![w] = (_dest = None)]
  /\ lastCall' = Call("write", None)
  /\ UNCHANGED <<_dest, wState, destL, cbCount, attachHist>>
  /\ UNCHANGED readSide

RECURSIVE Reverse(_)
Reverse(seq) ==
  IF seq = <<>> THEN <<>> ELSE Append(Reverse(Tail(seq)), Head(seq))

\* Mutant of AddDest: the queue is replayed from its end (pop, not shift).
AddDest_ReplaysFromEnd(d) ==
  /\ IF _dest # None
       THEN /\ lastCall' = Call("addDest", "AlreadyAttached")
            /\ UNCHANGED writeSide
       ELSE /\ Len(attachHist) < MaxAttach
            /\ lastCall' = Call("addDest", None)
            /\ _dest' = d
            /\ destL' = destL \cup {d}
            /\ destLog' = [destLog EXCEPT ![d] = @ \o Reverse(_destWritten)]
            /\ destInflight' =
                 [destInflight EXCEPT ![d] = @ \o Reverse(_destWritten)]
            /\ _destWritten' = <<>>
            /\ attachHist' = Append(attachHist, d)
            /\ UNCHANGED <<wState, cbCount, nextW, wEpoch, wQueued>>
  /\ UNCHANGED readSide

\* Mutant of AddDest: the queue is replayed but not emptied.
AddDest_KeepsQueue(d) ==
  /\ IF _dest # None
       THEN /\ lastCall' = Call("addDest", "AlreadyAttached")
            /\ UNCHANGED writeSide
       ELSE /\ Len(attachHist) < MaxAttach
            /\ lastCall' = Call("addDest", None)
            /\ _dest' = d
            /\ destL' = destL \cup {d}
            /\ destLog' = [destLog EXCEPT ![d] = @ \o _destWritten]
            /\ destInflight' = [destInflight EXCEPT ![d] = @ \o _destWritten]
            /\ attachHist' = Append(attachHist, d)
            /\ UNCHANGED <<_destWritten, wState, cbCount, nextW, wEpoch, wQueued>>
  /\ UNCHANGED readSide

\* addDest(stream)
AddDest(d) ==
  /\ IF _dest # None
       THEN /\ lastCall' = Call("addDest", "AlreadyAttached")
            /\ UNCHANGED writeSide
       ELSE /\ Len(attachHist) < MaxAttach
            /\ lastCall' = Call("addDest", None)
            /\ _dest' = d
            /\ destL' = destL \cup {d}
            /\ destLog' = [destLog EXCEPT ![d] = @ \o _destWritten]
            /\ destInflight' = [destInflight EXCEPT ![d] = @ \o _destWritten]
            /\ _destWritten' = <<>>
            /\ attachHist' = Append(attachHist, d)
            /\ UNCHANGED <<wState, cbCount, nextW, wEpoch, wQueued>>
  /\ UNCHANGED readSide

\* Mutant of RemoveDest: the check for an attached dest is missing.
RemoveDest_NoGuard ==
  /\ lastCall' = Call("removeDest", None)
  /\ destL' = destL \ {_dest}
  /\ _dest' = None
  /\ _destWritten' = <<>>
  /\ UNCHANGED <<wState, destLog, destInflight, cbCount, nextW,
                 attachHist, wEpoch, wQueued>>
  /\ UNCHANGED readSide

\* removeDest()
RemoveDest ==
  /\ IF _dest = None
       THEN /\ lastCall' = Call("removeDest", "NotAttached")
            /\ UNCHANGED writeSide
       ELSE /\ lastCall' = Call("removeDest", None)
            /\ destL' = destL \ {_dest}
            /\ _dest' = None
            /\ _destWritten' = <<>>
            /\ UNCHANGED <<wState, destLog, destInflight, cbCount, nextW,
                           attachHist, wEpoch, wQueued>>
  /\ UNCHANGED readSide

\* the consumer calls end() on the bridge: no further writes
BridgeEnd ==
  /\ wState = "open"
  /\ wState' = "ending"
  /\ lastCall' = Call("end", None)
  /\ UNCHANGED <<_dest, _destWritten, destL, destLog, destInflight, cbCount,
                 nextW, attachHist, wEpoch, wQueued>>
  /\ UNCHANGED readSide

\* 'finish' (every write was called back): the constructor's once-listener
Finish ==
  /\ wState = "ending"
  /\ \A w \in 1..nextW : cbCount[w] > 0
  /\ wState' = "finished"
  /\ IF _dest # None
       THEN destLog' = [destLog EXCEPT ![_dest] = Append(@, DestEnd)]
       ELSE UNCHANGED destLog
  /\ lastCall' = Call("event", None)
  /\ UNCHANGED <<_dest, _destWritten, destL, destInflight, cbCount, nextW,
                 attachHist, wEpoch, wQueued>>
  /\ UNCHANGED readSide

(***************************************************************************)
(* The dest streams.                                                       *)
(***************************************************************************)
\* d completes its oldest accepted write and calls the write's callback
DestComplete(d) ==
  /\ destInflight[d] # <<>>
  /\ cbCount' = [cbCount EXCEPT ![Head(destInflight[d])] = @ + 1]
  /\ destInflight' = [destInflight EXCEPT ![d] = Tail(@)]
  /\ lastCall' = Call("event", None)
  /\ UNCHANGED <<_dest, _destWritten, wState, destL, destLog, nextW,
                 attachHist, wEpoch, wQueued>>
  /\ UNCHANGED readSide

\* d fires 'drain' or 'close': relayed through the bridge when it listens
DestEvent(d, ev) ==
  /\ d \in destL
  /\ lastCall' = Emit(ev, d)
  /\ UNCHANGED readSide
  /\ UNCHANGED writeSide

\* The read side of one bridge with its source streams.
NextBridgeR ==
  \/ \E z \in Sizes : Read(z) /\ UNCHANGED <<proxyVars, buildVars, traceVars, hookVars, faultVars>>
  \/ \E s \in Sources : AddSource(s) /\ UNCHANGED <<proxyVars, buildVars, traceVars, hookVars, faultVars>>
  \/ RemoveSource /\ UNCHANGED <<proxyVars, buildVars, traceVars, hookVars, faultVars>>
  \/ \E s \in Sources : SourceProduce(s) /\ UNCHANGED <<proxyVars, buildVars, traceVars, hookVars, faultVars>>
  \/ \E s \in Sources : SourceFinish(s) /\ UNCHANGED <<proxyVars, buildVars, traceVars, hookVars, faultVars>>
  \/ \E s \in Sources : SourceReadable(s) /\ UNCHANGED <<proxyVars, buildVars, traceVars, hookVars, faultVars>>
  \/ \E s \in Sources : SourceEnd(s) /\ UNCHANGED <<proxyVars, buildVars, traceVars, hookVars, faultVars>>
  \/ \E s \in Sources, ev \in SOURCE_EVENTS : SourceEvent(s, ev) /\ UNCHANGED <<proxyVars, buildVars, traceVars, hookVars, faultVars>>
  \/ EmitEnd /\ UNCHANGED <<proxyVars, buildVars, traceVars, hookVars, faultVars>>

SpecBridgeR == Init /\ [][NextBridgeR]_vars

\* The write side of one bridge with its dest streams.
NextBridgeW ==
  \/ Write /\ UNCHANGED <<proxyVars, buildVars, traceVars, hookVars, faultVars>>
  \/ \E d \in Dests : AddDest(d) /\ UNCHANGED <<proxyVars, buildVars, traceVars, hookVars, faultVars>>
  \/ RemoveDest /\ UNCHANGED <<proxyVars, buildVars, traceVars, hookVars, faultVars>>
  \/ BridgeEnd /\ UNCHANGED <<proxyVars, buildVars, traceVars, hookVars, faultVars>>
  \/ Finish /\ UNCHANGED <<proxyVars, buildVars, traceVars, hookVars, faultVars>>
  \/ \E d \in Dests : DestComplete(d) /\ UNCHANGED <<proxyVars, buildVars, traceVars, hookVars, faultVars>>
  \/ \E d \in Dests, ev \in DEST_EVENTS : DestEvent(d, ev) /\ UNCHANGED <<proxyVars, buildVars, traceVars, hookVars, faultVars>>

SpecBridgeW == Init /\ [][NextBridgeW]_vars

\* The calls of the bridge's own interface, on both sides at once, with
\* streams that stay silent.
NextAttach ==
  \/ \E z \in Sizes : Read(z) /\ UNCHANGED <<proxyVars, buildVars, traceVars, hookVars, faultVars>>
  \/ \E s \in Sources : AddSource(s) /\ UNCHANGED <<proxyVars, buildVars, traceVars, hookVars, faultVars>>
  \/ RemoveSource /\ UNCHANGED <<proxyVars, buildVars, traceVars, hookVars, faultVars>>
  \/ Write /\ UNCHANGED <<proxyVars, buildVars, traceVars, hookVars, faultVars>>
  \/ \E d \in Dests : AddDest(d) /\ UNCHANGED <<proxyVars, buildVars, traceVars, hookVars, faultVars>>
  \/ RemoveDest /\ UNCHANGED <<proxyVars, buildVars, traceVars, hookVars, faultVars>>

SpecAttach == Init /\ [][NextAttach]_vars

(***************************************************************************)
(* Claims about the bridge.                                                *)
(***************************************************************************)
RECURSIVE Count(_, _)
Count(seq, x) ==
  IF seq = <<>> THEN 0
  ELSE (IF Head(seq) = x THEN 1 ELSE 0) + Count(Tail(seq), x)

Pos(seq, x) == CHOOSE i \in 1..Len(seq) : seq[i] = x

InflightAnywhere(w) == \E d \in Dests : Count(destInflight[d], w) > 0

\* C1: a write issued while no dest is attached stays in the pending queue
\* until the next addDest, is then handed to that dest and to no other, exactly
\* once and behind every earlier write of the same wait; its callback is never
\* called twice, and it has been called exactly once as soon as the write is
\* neither queued nor in flight at a dest (no write is dropped).
C1_QueuedWritesReplayedInOrder ==
  \A w \in 1..nextW :
    /\ cbCount[w] <= 1
    /\ cbCount[w] = 0 => (Count(_destWritten, w) = 1 \/ InflightAnywhere(w))
    /\ wQueued[w] =>
         IF Len(attachHist) > wEpoch[w]
           THEN LET d == attachHist[wEpoch[w] + 1] IN
                /\ Count(destLog[d], w) = 1
                /\ Count(_destWritten, w) = 0
                /\ \A e \in Dests \ {d} : Count(destLog[e], w) = 0
                /\ \A v \in 1..(w - 1) :
                     (wQueued[v] /\ wEpoch[v] = wEpoch[w])
                       => Pos(destLog[d], v) < Pos(destLog[d], w)
           ELSE /\ Count(_destWritten, w) = 1
                /\ \A e \in Dests : Count(destLog[e], w) = 0
                /\ cbCount[w] = 0

\* Two writes queued after a detach were replayed to the dest attached next
\* and both were called back.
C1_Witness ==
  \E v, w \in 1..nextW :
    /\ v < w /\ wQueued[v] /\ wQueued[w]
    /\ wEpoch[v] = 1 /\ wEpoch[w] = 1
    /\ cbCount[v] = 1 /\ cbCount[w] = 1

\* What a call must do, given the state it was made in.
FailsUnchanged(err) ==
  /\ lastCall'.err = err
  /\ UNCHANGED <<_source, _dest, _destWritten>>

\* C2: attaching a side that is attached fails with AlreadyAttached, detaching
\* a side that is not attached fails with NotAttached, a failing call leaves
\* the source, the dest and the pending queue as they were, a call that does
\* not fail attaches or detaches, and the bridge's listeners sit on at most one
\* source and at most one dest: the attached ones.
C2_AttachDetachFailFast ==
  /\ [](/\ relayL = (IF _source = None THEN {} ELSE {_source})
        /\ destL = (IF _dest = None THEN {} ELSE {_dest})
        /\ \A s \in Sources : endL[s] = (IF _source = s THEN 1 ELSE 0))
  /\ [][/\ lastCall'.op = "addSource" =>
             IF _source # None THEN FailsUnchanged("AlreadyAttached")
             ELSE lastCall'.err = None /\ _source' \in Sources
        /\ lastCall'.op = "removeSource" =>
             IF _source = None THEN FailsUnchanged("NotAttached")
             ELSE lastCall'.err = None /\ _source' = None
        /\ lastCall'.op = "addDest" =>
             IF _dest # None THEN FailsUnchanged("AlreadyAttached")
             ELSE lastCall'.err = None /\ _dest' \in Dests
        /\ lastCall'.op = "removeDest" =>
             IF _dest = None THEN FailsUnchanged("NotAttached")
             ELSE lastCall'.err = None /\ _dest' = None]_vars

\* A second addDest failed while a source was attached too.
C2_Witness ==
  /\ lastCall = Call("addDest", "AlreadyAttached")
  /\ _source # None /\ _dest # None

\* C3: the consumer of the bridge sees end-of-stream at most once, nothing
\* after it, and only after a source signalled end; once the attached source
\* has signalled end the bridge's readable side is ended, however often the
\* signal fires.
C3_ReadableEndsOnce ==
  /\ Count(consumed, END) <= 1
  /\ Count(consumed, END) = 1 => consumed[Len(consumed)] = END
  /\ rEnded => endSignals > 0
  /\ Count(consumed, END) = 1 => rEnded
  /\ endWhileAttached => rEnded

\* The end signal fired twice, the consumer got data and then its one end.
C3_Witness ==
  /\ endSignals >= 2 /\ endWhileAttached
  /\ Len(consumed) >= 2 /\ consumed[Len(consumed)] = END


(***************************************************************************)
(* ProxyServer: one instance, two tracers and one sink per request.        *)
(***************************************************************************)
\* ---- the sink (http.ServerResponse)
\* the body written for an upstream status >= 400
Diag(status) == <<"Error Occurred: proxyRes.statusCode: ", status>>
\* the body written on a transport error
ErrBody == <<"Something went wrong. And we are reporting a custom error message.",
             ProxyErrorStatus>>
\* chunk k of the upstream body
UpChunk(k) == <<"upstream", k>>
UpstreamBody(n) == [k \in 1..n |-> UpChunk(k)]

\* the headers go out with the status set so far, or Node's default
SendHeaders(sk) ==
  IF sk.headersSent THEN sk
  ELSE [sk EXCEPT !.headersSent = TRUE,
                  !.status = IF @ = Unset THEN DefaultStatus ELSE @]

\* res.write(item), as pipe() calls it; a write after end is dropped
SinkWrite(sk, item) ==
  IF sk.ended THEN sk
  ELSE [SendHeaders(sk) EXCEPT !.body = Append(@, item)]

\* res.end(item)
SinkEndWith(sk, item) ==
  IF sk.ended THEN sk
  ELSE [SendHeaders(sk) EXCEPT !.body = Append(@, item), !.ended = TRUE]

\* res.end()
SinkEnd(sk) ==
  IF sk.ended THEN sk ELSE [SendHeaders(sk) EXCEPT !.ended = TRUE]

\* ---- the tracers
FieldOf(point) ==
  CASE point = "firstByte" -> "firstByteTime"
    [] point = "end" -> "endTime"
    [] point = "close" -> "closeTime"

\* Mutant of ConsoleHook: onEnd stores the duration it logs, not the instant.
ConsoleHook_StoresDuration(point, d, t) ==
  [d |-> [d EXCEPT ![FieldOf(point)] =
            IF point = "end" THEN t - d.startTime ELSE t],
   threw |-> FALSE]

\* ConsoleTracer.onFirstByteReceived / onEnd / onClose at time t
ConsoleHook(point, d, t) ==
  [d |-> [d EXCEPT ![FieldOf(point)] = t], threw |-> FALSE]

\* ZipkinTracerImpl.onFirstByteReceived / onEnd / onClose at time t; onEnd
\* and onClose call res.statusCode.toString() after they set the time.
ZipkinHook(point, d, t) ==
  [d |-> [d EXCEPT ![FieldOf(point)] = t],
   threw |-> (point # "firstByte" /\ d.statusCode = Unset)]

\* the hook of one tracer at one point; the hook named by fault throws
\* before it returns
Hook(tracer, point, d, t) ==
  LET h == IF tracer = "zipkin" THEN ZipkinHook(point, d, t)
           ELSE ConsoleHook(point, d, t)
  IN IF fault = <<point, tracer>> THEN [h EXCEPT !.threw = TRUE] ELSE h

\* Mutant of ForEachTracer: each hook is called in a try/catch of its own.
RECURSIVE ForEachTracer_CatchesEach(_, _, _, _, _)
ForEachTracer_CatchesEach(i, point, acc, t, dt) ==
  IF i > Len(Tracers) THEN acc
  ELSE LET at == t + (i - 1) * dt
           h == Hook(Tracers[i], point, acc.d, at)
       IN ForEachTracer_CatchesEach(i + 1, point,
            [d |-> h.d, threw |-> FALSE,
             log |-> Append(acc.log, <<point, Tracers[i]>>),
             assigned |-> Append(acc.assigned, <<FieldOf(point), at>>)],
            t, dt)

\* tracer.forEach((t) => t.on...(req, proxyRes, responseDetails)), from the
\* i-th tracer on: hook i reads the clock at t + (i - 1) * dt, and a hook
\* that throws ends the loop.
RECURSIVE ForEachTracer(_, _, _, _, _)
ForEachTracer(i, point, acc, t, dt) ==
  IF i > Len(Tracers) \/ acc.threw THEN acc
  ELSE LET at == t + (i - 1) * dt
           h == Hook(Tracers[i], point, acc.d, at)
       IN ForEachTracer(i + 1, point,
            [d |-> h.d, threw |-> h.threw,
             log |-> Append(acc.log, <<point, Tracers[i]>>),
             assigned |-> Append(acc.assigned, <<FieldOf(point), at>>)],
            t, dt)

\* Mutant of RunHooks: the loop starts at the second tracer.
RunHooks_SkipsFirst(point, q, dt) ==
  ForEachTracer(2, point,
    [d |-> q.details, threw |-> FALSE, log |-> q.log, assigned |-> q.assigned],
    now, dt)

RunHooks(point, q, dt) ==
  ForEachTracer(1, point,
    [d |-> q.details, threw |-> FALSE, log |-> q.log, assigned |-> q.assigned],
    now, dt)

\* the request with the outcome h of a hook loop
AfterHooks(q, h) ==
  [q EXCEPT !.details = h.d, !.log = h.log, !.assigned = h.assigned,
            !.uncaught = h.threw]

\* the clock may advance by dt between two hooks of one loop
Advance(dt) ==
  /\ now + (Len(Tracers) - 1) * dt <= MaxTime
  /\ now' = now + (Len(Tracers) - 1) * dt

\* an uncaught exception ends the process
Crashed == \E r \in Reqs : px[r].uncaught

\* ---- the handlers
\* dispatch(): proxy.web(req, res, options)
Dispatch(r, kind) ==
  /\ ~Crashed /\ px[r].stage = "new"
  /\ px' = [px EXCEPT ![r] = [@ EXCEPT !.stage = "dispatched", !.kind = kind]]
  /\ UNCHANGED now

\* proxy.on("proxyReq"): builds ResponseDetails and listens for the response
ProxyReq(r) ==
  /\ ~Crashed /\ px[r].stage = "dispatched" /\ px[r].kind = "http"
  /\ ~px[r].errFired
  /\ px' = [px EXCEPT ![r] = [@ EXCEPT
       !.stage = "sent",
       !.details = [NoDetails EXCEPT !.startTime = now],
       !.log = Append(@, <<"proxyReq", "startTime">>),
       !.assigned = Append(@, <<"startTime", now>>)]]
  /\ UNCHANGED now

\* Mutant of ResponseBranch: the comparison is > instead of >=.
ResponseBranch_Greater(q, status) ==
  IF (IF status = Unset THEN MissingStatus ELSE status) > ErrorStatusFrom
    THEN [q EXCEPT !.sink = SinkEndWith([@ EXCEPT !.ctype = TRUE], Diag(status)),
                   !.log = @ \o <<<<"sink", "contentType">>, <<"sink", "diagnostic">>>>]
    ELSE [q EXCEPT !.piping = TRUE,
                   !.log = Append(@, <<"sink", "pipe">>)]

\* the branch of the 'response' listener on the status
ResponseBranch(q, status) ==
  IF (IF status = Unset THEN MissingStatus ELSE status) >= ErrorStatusFrom
    THEN [q EXCEPT !.sink = SinkEndWith([@ EXCEPT !.ctype = TRUE], Diag(status)),
                   !.log = @ \o <<<<"sink", "contentType">>, <<"sink", "diagnostic">>>>]
    ELSE [q EXCEPT !.piping = TRUE,
                   !.log = Append(@, <<"sink", "pipe">>)]

\* Mutant of Response: the status branch runs before the first-byte loop.
Response_RelaysFirst(r, status, n, dt) ==
  /\ ~Crashed /\ px[r].stage = "sent" /\ ~px[r].errFired
  /\ Advance(dt)
  /\ LET q0 == [px[r] EXCEPT !.stage = "responded",
                             !.details.statusCode = status,
                             !.upLen = n, !.upBody = UpstreamBody(n)]
         q1 == [q0 EXCEPT !.sink.marker = TRUE,
                          !.log = Append(@, <<"sink", "marker">>)]
         q2 == [ResponseBranch(q1, status) EXCEPT !.listening = TRUE]
         h == RunHooks("firstByte", q2, dt)
     IN px' = [px EXCEPT ![r] = AfterHooks(q2, h)]

\* Mutant of Response: the marker header is set after the status branch.
Response_MarkerAfterBody(r, status, n, dt) ==
  /\ ~Crashed /\ px[r].stage = "sent" /\ ~px[r].errFired
  /\ Advance(dt)
  /\ LET q0 == [px[r] EXCEPT !.stage = "responded",
                             !.details.statusCode = status,
                             !.upLen = n, !.upBody = UpstreamBody(n)]
         h == RunHooks("firstByte", q0, dt)
         q1 == AfterHooks(q0, h)
         q2 == [ResponseBranch(q1, status) EXCEPT !.listening = TRUE]
         q3 == [q2 EXCEPT !.sink.marker = ~q2.sink.headersSent,
                          !.log = Append(@, <<"sink", "marker">>)]
     IN px' = [px EXCEPT ![r] = IF h.threw THEN q1 ELSE q3]

\* Mutant of Response: responseDetails is one object shared by all requests.
Response_SharedDetails(r, status, n, dt) ==
  /\ ~Crashed /\ px[r].stage = "sent" /\ ~px[r].errFired
  /\ Advance(dt)
  /\ LET q0 == [px[r] EXCEPT !.stage = "responded",
                             !.details.statusCode = status,
                             !.upLen = n, !.upBody = UpstreamBody(n)]
         h == RunHooks("firstByte", q0, dt)
         q1 == AfterHooks(q0, h)
         q2 == [q1 EXCEPT !.sink.marker = TRUE,
                          !.log = Append(@, <<"sink", "marker">>)]
         q3 == [ResponseBranch(q2, status) EXCEPT !.listening = TRUE]
     IN px' = [o \in Reqs |->
                IF o = r THEN q3
                ELSE [px[o] EXCEPT !.details.statusCode = status,
                                   !.details.firstByteTime = h.d.firstByteTime]]

\* proxyReq.on("response"): the upstream answers with a status and n chunks
Response(r, status, n, dt) ==
  /\ ~Crashed /\ px[r].stage = "sent" /\ ~px[r].errFired
  /\ Advance(dt)
  /\ LET q0 == [px[r] EXCEPT !.stage = "responded",
                             !.details.statusCode = status,
                             !.upLen = n, !.upBody = UpstreamBody(n)]
         h == RunHooks("firstByte", q0, dt)
         q1 == AfterHooks(q0, h)
         q2 == [q1 EXCEPT !.sink.marker = TRUE,
                          !.log = Append(@, <<"sink", "marker">>)]
         q3 == [ResponseBranch(q2, status) EXCEPT !.listening = TRUE]
     IN px' = [px EXCEPT ![r] = IF h.threw THEN q1 ELSE q3]

\* pipe(): one chunk of the upstream body goes to the sink
UpstreamData(r) ==
  /\ ~Crashed /\ px[r].piping /\ px[r].upBody # <<>>
  /\ ~px[r].endFired /\ ~px[r].errFired
  /\ px' = [px EXCEPT ![r] = [@ EXCEPT
       !.sink = SinkWrite(@, Head(px[r].upBody)),
       !.upBody = Tail(@),
       !.log = Append(@, <<"sink", "write">>)]]
  /\ UNCHANGED now

\* proxyRes 'end': pipe()'s listener ends the sink, then the tracers' listener
UpstreamEnd(r, dt) ==
  /\ ~Crashed /\ px[r].listening /\ px[r].piping /\ px[r].upBody = <<>>
  /\ ~px[r].endFired /\ ~px[r].errFired
  /\ Advance(dt)
  /\ LET q0 == [px[r] EXCEPT !.endFired = TRUE, !.sink = SinkEnd(@),
                             !.log = Append(@, <<"sink", "end">>)]
     IN px' = [px EXCEPT ![r] = AfterHooks(q0, RunHooks("end", q0, dt))]

\* Mutant of UpstreamClose: the 'close' listener is put on the outbound
\* request in the 'proxyReq' listener, not on the response.
UpstreamClose_FromRequest(r, dt) ==
  /\ ~Crashed /\ px[r].stage \in {"sent", "responded"} /\ ~px[r].closeFired
  /\ Advance(dt)
  /\ LET q0 == [px[r] EXCEPT !.closeFired = TRUE]
     IN px' = [px EXCEPT ![r] = AfterHooks(q0, RunHooks("close", q0, dt))]

\* proxyRes 'close'
UpstreamClose(r, dt) ==
  /\ ~Crashed /\ px[r].listening /\ ~px[r].closeFired
  /\ Advance(dt)
  /\ LET q0 == [px[r] EXCEPT !.closeFired = TRUE]
     IN px' = [px EXCEPT ![r] = AfterHooks(q0, RunHooks("close", q0, dt))]

\* Mutant of ProxyError: writeHead and end go through whatever was sent.
ProxyError_WritesAnyway(q) ==
  IF q.kind = "http"
    THEN [q EXCEPT
           !.sink = [@ EXCEPT !.status = ProxyErrorStatus, !.headersSent = TRUE,
                              !.ctype = TRUE, !.body = Append(@, ErrBody),
                              !.ended = TRUE],
           !.log = Append(@, <<"error", "500">>)]
    ELSE [q EXCEPT !.sink.ended = TRUE,
                   !.log = Append(@, <<"error", "socket end">>)]

\* proxy.on('error'): the upstream transport failed (refused, reset, timeout)
ProxyError(q) ==
  IF q.kind = "http"
    THEN IF q.sink.headersSent
      THEN [q EXCEPT !.uncaught = TRUE,
                     !.log = Append(@, <<"error", "writeHead throws">>)]
      ELSE [q EXCEPT
             !.sink = SinkEndWith([SendHeaders([@ EXCEPT
                          !.status = ProxyErrorStatus]) EXCEPT !.ctype = TRUE],
                        ErrBody),
             !.log = Append(@, <<"error", "500">>)]
    ELSE [q EXCEPT !.sink.ended = TRUE,
                   !.log = Append(@, <<"error", "socket end">>)]

TransportError(r) ==
  /\ ~Crashed /\ px[r].stage # "new" /\ ~px[r].errFired
  /\ px' = [px EXCEPT ![r] = ProxyError([@ EXCEPT !.errFired = TRUE])]
  /\ UNCHANGED now

\* performance.now() moves on
Tick ==
  /\ ~Crashed /\ now < MaxTime
  /\ now' = now + 1
  /\ UNCHANGED px

\* One request on its own.
NextProxy ==
  \/ \E k \in SinkKinds : Dispatch("A", k) /\ UNCHANGED <<bridgeVars, buildVars, traceVars, hookVars, faultVars>>
  \/ ProxyReq("A") /\ UNCHANGED <<bridgeVars, buildVars, traceVars, hookVars, faultVars>>
  \/ \E s \in Statuses, n \in 0..MaxBody, dt \in {0, 1} :
       Response("A", s, n, dt) /\ UNCHANGED <<bridgeVars, buildVars, traceVars, hookVars, faultVars>>
  \/ UpstreamData("A") /\ UNCHANGED <<bridgeVars, buildVars, traceVars, hookVars, faultVars>>
  \/ \E dt \in {0, 1} : UpstreamEnd("A", dt) /\ UNCHANGED <<bridgeVars, buildVars, traceVars, hookVars, faultVars>>
  \/ \E dt \in {0, 1} : UpstreamClose("A", dt) /\ UNCHANGED <<bridgeVars, buildVars, traceVars, hookVars, faultVars>>
  \/ TransportError("A") /\ UNCHANGED <<bridgeVars, buildVars, traceVars, hookVars, faultVars>>
  \/ Tick /\ UNCHANGED <<bridgeVars, buildVars, traceVars, hookVars, faultVars>>

SpecProxy == Init /\ [][NextProxy]_vars

(***************************************************************************)
(* Claims about the dispatcher.                                            *)
(***************************************************************************)
\* the places in a log of the entries of one kind
Idx(log, kind) == {i \in 1..Len(log) : log[i][1] = kind}

Points == {"firstByte", "end", "close"}

\* C4: in the log of a request every end hook and every close hook comes
\* after all first-byte hooks of the request, every first-byte hook comes
\* after the 'proxyReq' listener set startTime, and end and close hooks run
\* only for a request whose first-byte hooks all ran.
C4_LifecycleOrder ==
  \A r \in Reqs :
    LET log == px[r].log
        late == Idx(log, "end") \cup Idx(log, "close")
    IN /\ \A i \in late : \A j \in Idx(log, "firstByte") : j < i
       /\ late # {} => Cardinality(Idx(log, "firstByte")) = Len(Tracers)
       /\ \A j \in Idx(log, "firstByte") :
            /\ \E k \in Idx(log, "proxyReq") : k < j
            /\ px[r].details.startTime # Unset

\* Close hooks ran before end hooks, both after the first byte.
C4_Witness ==
  \E r \in Reqs :
    LET log == px[r].log IN
    /\ Idx(log, "end") # {} /\ Idx(log, "close") # {}
    /\ \A i \in Idx(log, "close") : \A j \in Idx(log, "end") : i < j

Fired(q, point) ==
  CASE point = "firstByte" -> q.stage = "responded"
    [] point = "end" -> q.endFired
    [] point = "close" -> q.closeFired

\* C5: at each lifecycle point that was reached the log holds one entry per
\* registered tracer, in registration order and next to each other (no sink
\* operation in between); at a point not reached it holds none.
C5_HooksInRegistrationOrder ==
  \A r \in Reqs : \A p \in Points :
    LET log == px[r].log
        at == Idx(log, p)
    IN IF Fired(px[r], p)
         THEN /\ Cardinality(at) = Len(Tracers)
              /\ \E first \in 1..Len(log) :
                   \A k \in 1..Len(Tracers) :
                     /\ first + k - 1 <= Len(log)
                     /\ log[first + k - 1] = <<p, Tracers[k]>>
         ELSE at = {}

\* All three points were reached for one request.
C5_Witness ==
  \E r \in Reqs : \A p \in Points :
    Fired(px[r], p) /\ Cardinality(Idx(px[r].log, p)) = Len(Tracers)

IsUpChunk(item) == item[1] = UpChunk(1)[1]
IsDiag(item) == item[1] = Diag(0)[1]

\* C6: once the response listener has run, for a status >= 400 the sink holds
\* the diagnostic body with that status and nothing else, is ended, and is not
\* piped to; for a status < 400 the upstream body is piped, the sink holds no
\* diagnostic body, and the upstream chunks it holds are the chunks relayed so
\* far, in upstream order.
C6_ErrorStatusNotRelayed ==
  \A r \in Reqs :
    LET q == px[r]
        status == q.details.statusCode
        body == q.sink.body
    IN q.stage = "responded" =>
         IF status >= ErrorStatusFrom
           THEN /\ body = <<Diag(status)>> /\ body[1][2] = status
                /\ q.sink.ended /\ ~q.piping
           ELSE /\ q.piping
                /\ \A i \in 1..Len(body) : ~IsDiag(body[i])
                /\ SelectSeq(body, IsUpChunk)
                     = SubSeq(UpstreamBody(q.upLen), 1, q.upLen - Len(q.upBody))

\* A 400 with a body of its own got the diagnostic body.
C6_Witness ==
  \E r \in Reqs :
    /\ px[r].details.statusCode = ErrorStatusFrom /\ px[r].upLen > 0
    /\ px[r].sink.body = <<Diag(ErrorStatusFrom)>>

\* C7: after a transport failure no exception has escaped, an HTTP sink has
\* status 500 with the fixed body and is ended, and a socket sink is ended
\* with no body.
C7_TransportFailureHandled ==
  \A r \in Reqs :
    LET q == px[r] IN
    q.errFired =>
      /\ ~q.uncaught
      /\ q.kind = "http" =>
           /\ q.sink.status = ProxyErrorStatus
           /\ q.sink.body = <<ErrBody>>
           /\ q.sink.ended
      /\ q.kind = "socket" => (q.sink.ended /\ q.sink.body = <<>>)

\* the values written to one timing field, in the order they were written
RECURSIVE Written(_, _)
Written(assigned, field) ==
  IF assigned = <<>> THEN <<>>
  ELSE (IF Head(assigned)[1] = field THEN <<Head(assigned)[2]>> ELSE <<>>)
         \o Written(Tail(assigned), field)

NonDecreasing(seq) == \A i, j \in 1..Len(seq) : i < j => seq[i] <= seq[j]

TimingFields == {"startTime", "firstByteTime", "endTime", "closeTime"}

\* C9: whenever the fields are set, startTime <= firstByteTime <= endTime and
\* startTime <= closeTime; the values written to any one field never go down,
\* and the field holds the last of them.
C9_TimingsOrdered ==
  \A r \in Reqs :
    LET d == px[r].details IN
    /\ d.firstByteTime # Unset =>
         (d.startTime # Unset /\ d.startTime <= d.firstByteTime)
    /\ d.endTime # Unset =>
         (d.firstByteTime # Unset /\ d.firstByteTime <= d.endTime)
    /\ d.closeTime # Unset =>
         (d.startTime # Unset /\ d.startTime <= d.closeTime)
    /\ \A f \in TimingFields :
         LET ws == Written(px[r].assigned, f) IN
         /\ NonDecreasing(ws)
         /\ d[f] = (IF ws = <<>> THEN Unset ELSE ws[Len(ws)])

\* Close came before end, and the two end hooks wrote different instants.
C9_Witness ==
  \E r \in Reqs :
    LET d == px[r].details
        ws == Written(px[r].assigned, "endTime")
    IN /\ d.closeTime # Unset /\ d.endTime # Unset /\ d.closeTime < d.endTime
       /\ Len(ws) = 2 /\ ws[1] < ws[2]
       /\ d.startTime < d.firstByteTime

(***************************************************************************)
(* ProxyServer: capturing the body in the constructor and attaching it in  *)
(* dispatch.                                                               *)
(***************************************************************************)
\* request.method as the server framework hands it over
Methods == {"get", "post", "put", "delete", "patch", "POST", "PUT"}

\* Mutant of ToUpperCase: the method is compared as it came.
ToUpperCase_Identity(m) == m

\* request.method.toUpperCase()
ToUpperCase(m) ==
  CASE m \in {"get"} -> "GET"
    [] m \in {"post", "POST"} -> "POST"
    [] m \in {"put", "PUT"} -> "PUT"
    [] m \in {"delete"} -> "DELETE"
    [] m \in {"patch"} -> "PATCH"

Texts == {"", "hi"}
\* the bytes of a Buffer, in hex
BufferBytes == {"", "68 69"}
\* plain objects: {} and {a:1}
Objects == {"{}", "{a:1}"}

TextPayload(s) == [type |-> "string", cls |-> None, val |-> s]
StreamPayload == [type |-> "object", cls |-> "Readable", val |-> ""]
BufferPayload(b) == [type |-> "object", cls |-> "Buffer", val |-> b]
ObjectPayload(o) == [type |-> "object", cls |-> "Object", val |-> o]
OtherPayloads == {[type |-> "number", cls |-> None, val |-> "7"],
                  [type |-> "boolean", cls |-> None, val |-> "true"]}

Payloads ==
  {Absent, StreamPayload} \cup {TextPayload(s) : s \in Texts}
    \cup {BufferPayload(b) : b \in BufferBytes}
    \cup {ObjectPayload(o) : o \in Objects} \cup OtherPayloads

\* Buffer.prototype.toString(), utf8
BufferToString(b) ==
  CASE b = "" -> ""
    [] b = "68 69" -> "hi"

\* JSON.stringify of a plain object
JsonStringify(o) ==
  CASE o = "{}" -> "{}"
    [] o = "{a:1}" -> "{\"a\":1}"

Text(s) == [kind |-> "text", text |-> s]
LiveStream == [kind |-> "stream", text |-> ""]

\* Mutant of Capture: the switch has no default case.
Capture_NoDefault(payload) ==
  CASE payload.type = "string" -> Text(payload.val)
    [] payload.type = "object" ->
         IF payload.cls = "Readable" THEN LiveStream
         ELSE IF payload.cls = "Buffer" THEN Text(BufferToString(payload.val))
         ELSE Text(JsonStringify(payload.val))
    [] OTHER -> NoBody

\* the switch on typeof this.request.payload; "throw" for the default case
Capture(payload) ==
  CASE payload.type = "string" -> Text(payload.val)
    [] payload.type = "object" ->
         IF payload.cls = "Readable" THEN LiveStream
         ELSE IF payload.cls = "Buffer" THEN Text(BufferToString(payload.val))
         ELSE Text(JsonStringify(payload.val))
    [] payload.type = "undefined" -> NoBody
    [] OTHER -> [kind |-> "throw", text |-> ""]

IsPostOrPut(method) == method = "POST" \/ method = "PUT"

\* new ProxyServer(request, tracer, target)
Construct(m, payload) ==
  /\ bd.stage = "none"
  /\ LET method == ToUpperCase(m)
         body == IF IsPostOrPut(method) THEN Capture(payload) ELSE NoBody
     IN bd' = [bd EXCEPT !.rawMethod = m, !.method = method,
                         !.payload = payload,
                         !.body = IF body.kind = "throw" THEN NoBody ELSE body,
                         !.stage = IF body.kind = "throw" THEN "failed"
                                   ELSE "built"]

\* if (this.body ...): a Readable is truthy, a string is unless it is empty
Truthy(body) == body.kind = "stream" \/ body.text # ""

\* Mutant of DispatchBuild: a non-string body is serialized and pushed again.
DispatchBuild_PushesTwice ==
  /\ bd.stage = "built"
  /\ bd' = IF Truthy(bd.body) /\ IsPostOrPut(bd.method)
             THEN IF bd.body.kind = "stream"
                    THEN [bd EXCEPT !.stage = "dispatched",
                                    !.buffer = [kind |-> "stream"]]
                    ELSE [bd EXCEPT !.stage = "dispatched",
                                    !.buffer = [kind |-> "bridge"],
                                    !.pushed = <<bd.body.text, bd.body.text>>,
                                    !.ended = TRUE]
             ELSE [bd EXCEPT !.stage = "dispatched"]

\* dispatch(options): the body bridge is streamify({readable, !writable}),
\* fed push(text) and push(null)
DispatchBuild ==
  /\ bd.stage = "built"
  /\ bd' = IF Truthy(bd.body) /\ IsPostOrPut(bd.method)
             THEN IF bd.body.kind = "stream"
                    THEN [bd EXCEPT !.stage = "dispatched",
                                    !.buffer = [kind |-> "stream"]]
                    ELSE [bd EXCEPT !.stage = "dispatched",
                                    !.buffer = [kind |-> "bridge"],
                                    !.pushed = <<bd.body.text>>,
                                    !.ended = TRUE]
             ELSE [bd EXCEPT !.stage = "dispatched"]

\* the outbound transport takes the next chunk of the body bridge
TransportRead ==
  /\ bd.stage = "dispatched" /\ bd.buffer.kind = "bridge"
  /\ bd.pushed # <<>>
  /\ bd' = [bd EXCEPT !.sent = Append(@, Head(bd.pushed)),
                      !.pushed = Tail(@)]

\* the body bridge, drained and ended, emits 'end'
TransportEnd ==
  /\ bd.stage = "dispatched" /\ bd.buffer.kind = "bridge"
  /\ bd.pushed = <<>> /\ bd.ended /\ ~bd.endEmitted
  /\ bd' = [bd EXCEPT !.endEmitted = TRUE]

NextBuild ==
  \/ \E m \in Methods, p \in Payloads :
       Construct(m, p) /\ UNCHANGED <<bridgeVars, proxyVars, traceVars, hookVars, faultVars>>
  \/ DispatchBuild /\ UNCHANGED <<bridgeVars, proxyVars, traceVars, hookVars, faultVars>>
  \/ TransportRead /\ UNCHANGED <<bridgeVars, proxyVars, traceVars, hookVars, faultVars>>
  \/ TransportEnd /\ UNCHANGED <<bridgeVars, proxyVars, traceVars, hookVars, faultVars>>

SpecBuild == Init /\ [][NextBuild]_vars

(***************************************************************************)
(* ZipkinTracerImpl.createOrContinueTrace.                                 *)
(***************************************************************************)
\* values of x-b3-traceid, x-b3-spanid, x-b3-parentspanid; None: no header
TraceIdHeaders == {None, "", "T1"}
SpanIdHeaders == {None, "", "S1"}
ParentIdHeaders == {None, "P1"}

\* what zipkin's randomTraceId() returns, by draw; the 64-bit random values
\* are taken to differ from draw to draw
RandomIds == <<"r1", "r2", "r3">>

RandomTraceId(n) == RandomIds[n]

\* a header value in a condition: undefined and "" are falsy
Present(h) == h # None /\ h # ""

\* Mutant of Continues: one of the two headers is enough.
Continues_Either(h) == Present(h.traceid) \/ Present(h.spanid)

\* if (traceIdHeader && spanIdHeader)
Continues(h) == Present(h.traceid) /\ Present(h.spanid)

\* zipkinTracer.createRootId(): spanId random, traceId = spanId, no parent
CreateRootId(n) ==
  [traceId |-> RandomTraceId(n), spanId |-> RandomTraceId(n),
   parentId |-> None]

\* new TraceId({traceId, spanId, parentId, ...}) from the headers
ContinuedId(h) ==
  [traceId |-> h.traceid, spanId |-> h.spanid,
   parentId |-> IF Present(h.parentid) THEN h.parentid ELSE None]

\* a request with these B3 headers reaches its tracer
Inbound(r, h) ==
  /\ tr[r].stage = "none"
  /\ tr' = [tr EXCEPT ![r].stage = "arrived", ![r].headers = h]
  /\ UNCHANGED <<ctxId, draws>>

\* createOrContinueTrace(req), called by onFirstByteReceived
CreateOrContinueTrace(r) ==
  /\ tr[r].stage = "arrived"
  /\ LET h == tr[r].headers
         id == IF Continues(h) THEN ContinuedId(h) ELSE CreateRootId(draws + 1)
     IN /\ tr' = [tr EXCEPT ![r].stage = "traced", ![r].traceId = id]
        /\ ctxId' = id
        /\ draws' = IF Continues(h) THEN draws ELSE draws + 1

NextTrace ==
  \/ \E r \in TraceReqs, t \in TraceIdHeaders, s \in SpanIdHeaders,
        p \in ParentIdHeaders :
       /\ Inbound(r, [traceid |-> t, spanid |-> s, parentid |-> p])
       /\ UNCHANGED <<bridgeVars, proxyVars, buildVars, hookVars, faultVars>>
  \/ \E r \in TraceReqs :
       CreateOrContinueTrace(r) /\ UNCHANGED <<bridgeVars, proxyVars, buildVars, hookVars, faultVars>>

SpecTrace == Init /\ [][NextTrace]_vars

\* the methods that read POST or PUT once in upper case
PostOrPutMethods == {"post", "put", "POST", "PUT"}

\* the payload shapes absent, text, object and stream
ClaimedShapes ==
  {Absent, StreamPayload} \cup {TextPayload(s) : s \in Texts}
    \cup {ObjectPayload(o) : o \in Objects}

Attached == bd.buffer.kind # None

\* a payload that is there and is not empty text: a stream, an object, a
\* text or buffer of at least one character
NonEmpty(payload) ==
  \/ payload = StreamPayload
  \/ \E o \in Objects : payload = ObjectPayload(o)
  \/ \E s \in Texts : s # "" /\ payload = TextPayload(s)
  \/ \E b \in BufferBytes : b # "" /\ payload = BufferPayload(b)

\* C8 as stated: for the shapes absent, text, object and stream a dispatched
\* request has a body attached iff its method is POST or PUT.
C8_BodyIffPostOrPut ==
  (bd.stage = "dispatched" /\ bd.payload \in ClaimedShapes) =>
    (Attached <=> bd.rawMethod \in PostOrPutMethods)

\* C8: a dispatched request has a body attached iff its method is POST or PUT
\* and its payload is there and not empty; for any other method no body is
\* attached, whatever the payload.
C8_BodyIffPostOrPutAndNonEmpty ==
  bd.stage = "dispatched" =>
    /\ Attached <=> (bd.rawMethod \in PostOrPutMethods /\ NonEmpty(bd.payload))
    /\ bd.rawMethod \notin PostOrPutMethods => ~Attached

\* A POST without payload was dispatched with no body.
C8_Witness ==
  /\ bd.stage = "dispatched" /\ bd.rawMethod = "post"
  /\ bd.payload = Absent /\ ~Attached

Traced == {r \in TraceReqs : tr[r].stage = "traced"}

HeaderIds == TraceIdHeaders \cup SpanIdHeaders \cup ParentIdHeaders

\* C10: a traced request with both headers has traceId T; one that lacks
\* either header has no parent and trace and span identifiers that no header
\* supplied; two traced requests that lack a header have different traceIds.
C10_ContinueOrFreshRoot ==
  /\ \A r \in Traced :
       LET h == tr[r].headers
           id == tr[r].traceId
       IN /\ (Present(h.traceid) /\ Present(h.spanid)) => id.traceId = h.traceid
          /\ (h.traceid = None \/ h.spanid = None) =>
               /\ id.parentId = None
               /\ id.traceId \notin HeaderIds /\ id.spanId \notin HeaderIds
  /\ \A r1, r2 \in Traced :
       ( /\ r1 # r2
         /\ tr[r1].headers.traceid = None \/ tr[r1].headers.spanid = None
         /\ tr[r2].headers.traceid = None \/ tr[r2].headers.spanid = None )
       => tr[r1].traceId.traceId # tr[r2].traceId.traceId

\* One request continued trace T1, two others without headers got roots.
C10_Witness ==
  \E r1, r2, r3 \in Traced :
    /\ r1 # r2 /\ r2 # r3 /\ r1 # r3
    /\ tr[r1].headers.traceid = "T1" /\ tr[r1].headers.spanid = "S1"
    /\ tr[r1].traceId.traceId = "T1"
    /\ tr[r2].headers.traceid = None /\ tr[r3].headers.spanid = None
    /\ tr[r2].traceId.traceId # tr[r3].traceId.traceId

\* C11: a request traced from both inbound headers T and S has traceId T, a
\* spanId other than S, and parentId S.
C11_ContinuedAsChildSpan ==
  \A r \in Traced :
    LET h == tr[r].headers
        id == tr[r].traceId
    IN Continues(h) =>
         /\ id.traceId = h.traceid
         /\ id.spanId # h.spanid
         /\ id.parentId = h.spanid

(***************************************************************************)
(* The hooks of ZipkinTracerImpl on the module's one zipkinTracer, for     *)
(* requests in flight together.                                            *)
(***************************************************************************)
\* the requests in flight together
HookReqs == {"A", "B"}

\* zipkinTracer.recordRpc / recordBinary / recordAnnotation inside a hook of
\* request r: the record carries the id in force on zipkinTracer
Record(r, point, id) == [req |-> r, point |-> point, id |-> id]

\* onFirstByteReceived(req, ...): createOrContinueTrace sets the id, then the
\* records are made
ZipkinOnFirstByteReceived(r) ==
  /\ CreateOrContinueTrace(r)
  /\ recorded' = Append(recorded, Record(r, "firstByte", ctxId'))
  /\ UNCHANGED zk

\* Mutant of ZipkinLater: the hook records without zipkinTracer.setId.
ZipkinLater_NoSetId(r, point) ==
  /\ tr[r].stage = "traced" /\ ~zk[r][point]
  /\ zk' = [zk EXCEPT ![r][point] = TRUE]
  /\ IF tr[r].traceId = NoTraceId
       THEN UNCHANGED <<ctxId, recorded>>
       ELSE /\ UNCHANGED ctxId
            /\ recorded' = Append(recorded, Record(r, point, ctxId))
  /\ UNCHANGED <<tr, draws>>

\* onEnd / onClose(req, ...): return if this.traceId is null, else
\* zipkinTracer.setId(this.traceId) and the records
ZipkinLater(r, point) ==
  /\ tr[r].stage = "traced" /\ ~zk[r][point]
  /\ zk' = [zk EXCEPT ![r][point] = TRUE]
  /\ IF tr[r].traceId = NoTraceId
       THEN UNCHANGED <<ctxId, recorded>>
       ELSE /\ ctxId' = tr[r].traceId
            /\ recorded' = Append(recorded, Record(r, point, ctxId'))
  /\ UNCHANGED <<tr, draws>>

NextTraceHooks ==
  \/ \E r \in HookReqs, t \in TraceIdHeaders, s \in SpanIdHeaders,
        p \in ParentIdHeaders :
       /\ Inbound(r, [traceid |-> t, spanid |-> s, parentid |-> p])
       /\ UNCHANGED <<bridgeVars, proxyVars, buildVars, hookVars, faultVars>>
  \/ \E r \in HookReqs :
       ZipkinOnFirstByteReceived(r) /\ UNCHANGED <<bridgeVars, proxyVars, buildVars, faultVars>>
  \/ \E r \in HookReqs :
       ZipkinLater(r, "end") /\ UNCHANGED <<bridgeVars, proxyVars, buildVars, faultVars>>
  \/ \E r \in HookReqs :
       ZipkinLater(r, "close") /\ UNCHANGED <<bridgeVars, proxyVars, buildVars, faultVars>>

SpecTraceHooks == Init /\ [][NextTraceHooks]_vars

\* C12: every record made inside a hook of request R carries the id stored
\* in R's own tracer, whatever hooks of other requests ran in between.
C12_RecordsUnderOwnContext ==
  \A i \in 1..Len(recorded) :
    /\ recorded[i].id # NoTraceId
    /\ recorded[i].id = tr[recorded[i].req].traceId

\* A hook of one request recorded between two hooks of another, the two
\* requests having different ids.
C12_Witness ==
  \E i, j, k \in 1..Len(recorded) :
    /\ i < j /\ j < k
    /\ recorded[i].req = recorded[k].req
    /\ recorded[j].req # recorded[i].req
    /\ recorded[j].id # recorded[i].id
    /\ recorded[k].point \in {"end", "close"}

(***************************************************************************)
(* Two requests in flight together, each with its own ProxyServer.         *)
(***************************************************************************)
\* the upstream statuses of the two-request runs: one piped, one diagnosed
Statuses2 == {200, 404}

NextProxy2 ==
  \/ \E r \in Reqs : Dispatch(r, "http") /\ UNCHANGED <<bridgeVars, buildVars, traceVars, hookVars, faultVars>>
  \/ \E r \in Reqs : ProxyReq(r) /\ UNCHANGED <<bridgeVars, buildVars, traceVars, hookVars, faultVars>>
  \/ \E r \in Reqs, s \in Statuses2 :
       Response(r, s, 1, 0) /\ UNCHANGED <<bridgeVars, buildVars, traceVars, hookVars, faultVars>>
  \/ \E r \in Reqs : UpstreamData(r) /\ UNCHANGED <<bridgeVars, buildVars, traceVars, hookVars, faultVars>>
  \/ \E r \in Reqs : UpstreamEnd(r, 0) /\ UNCHANGED <<bridgeVars, buildVars, traceVars, hookVars, faultVars>>
  \/ \E r \in Reqs : UpstreamClose(r, 0) /\ UNCHANGED <<bridgeVars, buildVars, traceVars, hookVars, faultVars>>
  \/ Tick /\ UNCHANGED <<bridgeVars, buildVars, traceVars, hookVars, faultVars>>

SpecProxy2 == Init /\ [][NextProxy2]_vars

\* C13: a step that changes the ResponseDetails of a request is an event of
\* that request (its own log grows) and leaves the other requests as they
\* were; and the status in a request's details is the one its own upstream
\* answered with, which decided its own sink's body.
C13_NoCrossWiring ==
  /\ [][\A r \in Reqs :
          px'[r].details # px[r].details =>
            /\ Len(px'[r].log) > Len(px[r].log)
            /\ \A o \in Reqs \ {r} : px'[o] = px[o]]_vars
  /\ [](\A r \in Reqs :
          px[r].stage = "responded" =>
            (px[r].details.statusCode >= ErrorStatusFrom
               <=> px[r].sink.body = <<Diag(px[r].details.statusCode)>>))

\* Both requests answered, with different statuses, the first byte of one
\* falling between the first byte and the end of the other.
C13_Witness ==
  \E a, b \in Reqs :
    /\ a # b
    /\ px[a].stage = "responded" /\ px[b].stage = "responded"
    /\ px[a].details.statusCode # px[b].details.statusCode
    /\ px[a].endFired /\ px[b].closeFired
    /\ px[a].details.firstByteTime < px[b].details.firstByteTime
    /\ px[b].details.firstByteTime < px[a].details.endTime

\* C14: building the dispatcher fails exactly for a POST or PUT whose payload
\* is of no accepted shape; a failed build has attached and sent nothing and
\* never goes on to dispatch; for any other method a payload of any shape
\* builds.
C14_UnsupportedPayloadFailsBuild ==
  /\ [](bd.stage # "none" =>
          /\ bd.stage = "failed" <=>
               (bd.rawMethod \in PostOrPutMethods /\ bd.payload \in OtherPayloads)
          /\ bd.stage = "failed" =>
               (~Attached /\ bd.pushed = <<>> /\ bd.sent = <<>> /\ ~bd.endEmitted))
  /\ [][bd.stage = "failed" => bd' = bd]_vars

\* A PUT with a number for payload failed to build.
C14_Witness ==
  /\ bd.stage = "failed" /\ bd.rawMethod = "put"
  /\ bd.payload.type = "number"

\* the text a payload is to reach the upstream as
ExpectedText(payload) ==
  CASE payload = TextPayload("hi") -> "hi"
    [] payload = BufferPayload("68 69") -> "hi"
    [] payload = ObjectPayload("{}") -> "{}"
    [] payload = ObjectPayload("{a:1}") -> "{\"a\":1}"
    [] OTHER -> ""

NonStreamPayloads ==
  {TextPayload(s) : s \in Texts} \cup {BufferPayload(b) : b \in BufferBytes}
    \cup {ObjectPayload(o) : o \in Objects}

\* the body bridge holds or has handed over the text, once, and is ended
BridgeCarries(text) ==
  /\ bd.buffer.kind = "bridge"
  /\ bd.sent \o bd.pushed = <<text>>
  /\ bd.ended
  /\ bd.endEmitted => bd.sent = <<text>>

PassedAsIs == bd.buffer.kind = "stream" /\ bd.pushed = <<>> /\ bd.sent = <<>>

\* C15 as stated: a dispatched POST or PUT with a text, buffer or object
\* payload has a body bridge carrying the serialized text once, then one end;
\* with a stream payload the stream itself is the body.
C15_BridgeCarriesSerializedText ==
  (bd.stage = "dispatched" /\ bd.rawMethod \in PostOrPutMethods) =>
    /\ bd.payload \in NonStreamPayloads => BridgeCarries(ExpectedText(bd.payload))
    /\ bd.payload = StreamPayload => PassedAsIs

\* C15: a dispatched POST or PUT with a text, buffer or object payload whose
\* serialized text is not empty has a body bridge carrying that text once,
\* then one end; if the text is empty no body is attached; with a stream
\* payload the stream itself is the body.
C15_BridgeCarriesNonEmptyText ==
  (bd.stage = "dispatched" /\ bd.rawMethod \in PostOrPutMethods) =>
    /\ bd.payload \in NonStreamPayloads =>
         IF ExpectedText(bd.payload) # ""
           THEN BridgeCarries(ExpectedText(bd.payload))
           ELSE ~Attached /\ bd.pushed = <<>> /\ bd.sent = <<>>
    /\ bd.payload = StreamPayload => PassedAsIs

\* The object {a:1} was POSTed and the upstream got {"a":1} and the end.
C15_Witness ==
  /\ bd.stage = "dispatched" /\ bd.rawMethod = "post"
  /\ bd.payload = ObjectPayload("{a:1}")
  /\ bd.sent = <<"{\"a\":1}">> /\ bd.endEmitted

\* the sink operations of a log that put body bytes on the sink
BodyOps == {<<"sink", "diagnostic">>, <<"sink", "write">>}

\* C16: once the response listener has run the sink carries the marker
\* header, and the marker was set before any body was written to the sink;
\* for an upstream 200 whose body ended, the sink has status 200 and holds
\* the upstream body, whole and in order, and is ended.
C16_MarkerBeforeBody ==
  \A r \in Reqs :
    LET q == px[r] IN
    q.stage = "responded" =>
      /\ q.sink.marker
      /\ \E m \in 1..Len(q.log) :
           /\ q.log[m] = <<"sink", "marker">>
           /\ \A i \in 1..Len(q.log) : q.log[i] \in BodyOps => m < i
      /\ (q.details.statusCode = DefaultStatus /\ q.endFired) =>
           /\ q.sink.status = DefaultStatus
           /\ q.sink.body = UpstreamBody(q.upLen)
           /\ q.sink.ended

\* An upstream 200 with two chunks was relayed to its end.
C16_Witness ==
  \E r \in Reqs :
    /\ px[r].details.statusCode = DefaultStatus /\ px[r].endFired
    /\ px[r].upLen = MaxBody /\ Len(px[r].sink.body) = MaxBody
    /\ px[r].sink.marker

(***************************************************************************)
(* The write side under the scheduling the streams guarantee: a dest       *)
(* completes every write it accepted, and 'finish' is emitted once end()   *)
(* was called and every write was called back.                             *)
(***************************************************************************)
SpecBridgeWFair ==
  /\ SpecBridgeW
  /\ WF_vars(Finish /\ UNCHANGED <<proxyVars, buildVars, traceVars, hookVars, faultVars>>)
  /\ \A d \in Dests :
       WF_vars(DestComplete(d) /\ UNCHANGED <<proxyVars, buildVars, traceVars, hookVars, faultVars>>)

EndedAnywhere == \E d \in Dests : Count(destLog[d], DestEnd) > 0

\* C17: no dest is ended twice and none receives a write after its end; and
\* once the writable side has finished, a dest that is attached while no dest
\* has been ended yet (the finish came while none was attached) is eventually
\* ended.
C17_FinishEndsDest ==
  /\ [](\A d \in Dests :
          /\ Count(destLog[d], DestEnd) <= 1
          /\ Count(destLog[d], DestEnd) = 1 =>
               destLog[d][Len(destLog[d])] = DestEnd)
  /\ (wState = "finished" /\ _dest # None) ~> EndedAnywhere

\* C18: whenever a dest is attached the pending-write queue is empty, and a
\* step that makes the queue longer starts with no dest attached and leaves
\* none attached.
C18_QueueOnlyWhileDetached ==
  /\ [](_dest # None => _destWritten = <<>>)
  /\ [][Len(_destWritten') > Len(_destWritten) =>
          (_dest = None /\ _dest' = None)]_vars

\* A write was queued, and a later attach emptied the queue into the dest.
C18_Witness ==
  /\ _dest # None /\ _destWritten = <<>>
  /\ \E w \in 1..nextW : wQueued[w] /\ Count(destLog[_dest], w) = 1
  /\ \E w \in 1..nextW : ~wQueued[w]

\* the sink operations of a log by which the body starts to be relayed
RelayOps == BodyOps \cup {<<"sink", "pipe">>}

\* C19: each tracer's first-byte hook is in a request's log once if the
\* response listener has run and not at all otherwise; wherever the log has a
\* relay operation on the sink, every first-byte hook comes before it and
\* firstByteTime has been written by every hook.
C19_FirstByteBeforeRelay ==
  \A r \in Reqs :
    LET q == px[r] IN
    /\ \A k \in 1..Len(Tracers) :
         Count(q.log, <<"firstByte", Tracers[k]>>)
           = (IF q.stage = "responded" THEN 1 ELSE 0)
    /\ \A i \in 1..Len(q.log) :
         q.log[i] \in RelayOps =>
           /\ \A k \in 1..Len(Tracers) :
                \E j \in 1..(i - 1) : q.log[j] = <<"firstByte", Tracers[k]>>
           /\ q.details.firstByteTime # Unset
           /\ Len(Written(q.assigned, "firstByteTime")) = Len(Tracers)

\* Upstream chunks reached the sink after both first-byte hooks, which read
\* the clock at different instants.
C19_Witness ==
  \E r \in Reqs :
    LET ws == Written(px[r].assigned, "firstByteTime") IN
    /\ \E i \in 1..Len(px[r].sink.body) : IsUpChunk(px[r].sink.body[i])
    /\ Len(ws) = Len(Tracers) /\ ws[1] < ws[Len(ws)]

\* C20: a source stream that is not the attached one carries none of the
\* bridge's listeners: no error/close relay, no end-of-source listener and no
\* 'readable' closure.
C20_DetachedSourceHasNoListeners ==
  \A s \in Sources :
    s # _source =>
      /\ s \notin relayL
      /\ endL[s] = 0
      /\ readableL[s] = <<>>

(***************************************************************************)
(* The read side under the scheduling the streams guarantee: a source      *)
(* that has 'readable' listeners and data (or its end) to report fires     *)
(* 'readable'.                                                             *)
(***************************************************************************)
SpecBridgeRFair ==
  /\ SpecBridgeR
  /\ \A s \in Sources :
       WF_vars(SourceReadable(s) /\ UNCHANGED <<proxyVars, buildVars, traceVars, hookVars, faultVars>>)

\* the closure of the last _read waits on the attached source
Armed ==
  \E i \in 1..Len(readableL[_source]) :
    readableL[_source][i] = onreadable /\ onreadable.live

\* the attached source can answer the pull of the last _read
Deliverable ==
  SrcReadLen(srcData[_source], onreadable.size, srcFin[_source]) > 0

\* C21: a _read with no source attached hands nothing to the consumer and
\* stores its size; a successful addSource pulls from the new source with the
\* stored size, taking data or arming the closure on the source; while a pull
\* is unanswered on an attached source the closure is armed; and an
\* unanswered pull that the attached source can answer is eventually answered
\* (or the source is detached).
C21_ReadWithoutSourceIsRemembered ==
  /\ [][(lastCall' = Call("read", None) /\ _source = None) =>
          /\ consumed' = consumed
          /\ rReading' /\ _sourceRead' \in Sizes
          /\ UNCHANGED <<srcData, readableL>>]_vars
  /\ [][(lastCall' = Call("addSource", None) /\ _source = None) =>
          /\ onreadable'.size = _sourceRead
          /\ \/ Len(srcData'[_source']) < Len(srcData[_source'])
             \/ Armed']_vars
  /\ []((_source # None /\ rReading /\ ~rEnded) => Armed)
  /\ \A s \in Sources :
       (_source = s /\ rReading /\ Deliverable) ~> (~rReading \/ _source # s)

\* A read of two chunks came before the one attach; the source had less then,
\* and the last step was the source's 'readable' handing both to the consumer.
C21_Witness ==
  /\ _sourceRead = 2 /\ srcAttached = 1 /\ _source # None
  /\ onreadable.size = _sourceRead
  /\ Len(consumed) = 2 /\ ~rEnded /\ ~rReading
  /\ \A s \in Sources : ~srcFin[s]
  /\ lastCall = Call("event", None)

(***************************************************************************)
(* One request with a tracer of which one hook throws.                     *)
(***************************************************************************)
\* the tracer handed to ProxyServer is one whose hook at this point throws
TracerFails(point, tracer) ==
  /\ fault = NoFault
  /\ \A r \in Reqs : px[r].stage = "new"
  /\ fault' = <<point, tracer>>

NextProxyFaulty ==
  \/ \E p \in Points, k \in 1..Len(Tracers) :
       TracerFails(p, Tracers[k]) /\ UNCHANGED <<bridgeVars, proxyVars, buildVars, traceVars, hookVars>>
  \/ \E k \in SinkKinds : Dispatch("A", k) /\ UNCHANGED <<bridgeVars, buildVars, traceVars, hookVars, faultVars>>
  \/ ProxyReq("A") /\ UNCHANGED <<bridgeVars, buildVars, traceVars, hookVars, faultVars>>
  \/ \E s \in Statuses, n \in 0..MaxBody, dt \in {0, 1} :
       Response("A", s, n, dt) /\ UNCHANGED <<bridgeVars, buildVars, traceVars, hookVars, faultVars>>
  \/ UpstreamData("A") /\ UNCHANGED <<bridgeVars, buildVars, traceVars, hookVars, faultVars>>
  \/ \E dt \in {0, 1} : UpstreamEnd("A", dt) /\ UNCHANGED <<bridgeVars, buildVars, traceVars, hookVars, faultVars>>
  \/ \E dt \in {0, 1} : UpstreamClose("A", dt) /\ UNCHANGED <<bridgeVars, buildVars, traceVars, hookVars, faultVars>>
  \/ TransportError("A") /\ UNCHANGED <<bridgeVars, buildVars, traceVars, hookVars, faultVars>>
  \/ Tick /\ UNCHANGED <<bridgeVars, buildVars, traceVars, hookVars, faultVars>>

SpecProxyFaulty == Init /\ [][NextProxyFaulty]_vars

\* C22: at a point that was reached and whose k-th hook throws, that hook
\* was invoked once, no later hook of the point was invoked, the exception
\* left the listener, and the listener did nothing after it; when the point
\* is the first byte the sink has no marker, no header sent and no body,
\* nothing is piped, and no end or close hook is ever invoked.
C22_ThrowingHookInterrupts ==
  \A r \in Reqs : \A p \in Points : \A k \in 1..Len(Tracers) :
    LET q == px[r] IN
    (fault = <<p, Tracers[k]>> /\ Fired(q, p)) =>
      /\ Count(q.log, <<p, Tracers[k]>>) = 1
      /\ \A j \in (k + 1)..Len(Tracers) : Count(q.log, <<p, Tracers[j]>>) = 0
      /\ q.uncaught
      /\ q.log[Len(q.log)] = <<p, Tracers[k]>>
      /\ p = "firstByte" =>
           /\ ~q.sink.marker /\ ~q.sink.headersSent /\ q.sink.body = <<>>
           /\ ~q.piping /\ ~q.listening
           /\ ~q.endFired /\ ~q.closeFired
           /\ Idx(q.log, "end") = {} /\ Idx(q.log, "close") = {}

\* The first tracer's first-byte hook threw on a response with a body.
C22_Witness ==
  \E r \in Reqs :
    /\ fault = <<"firstByte", Tracers[1]>>
    /\ px[r].stage = "responded" /\ px[r].upLen > 0
    /\ px[r].uncaught

(***************************************************************************)
(* One request whose upstream events keep coming after the proxy's 'error' *)
(* listener has run.                                                       *)
(***************************************************************************)
\* proxyReq 'response' after the 'error' listener answered: the first-byte
\* loop runs, then res.setHeader throws if the sink's headers are out
LateResponse(r, status, n, dt) ==
  /\ ~Crashed /\ px[r].stage = "sent" /\ px[r].errFired
  /\ Advance(dt)
  /\ LET q0 == [px[r] EXCEPT !.stage = "responded",
                             !.details.statusCode = status,
                             !.upLen = n, !.upBody = UpstreamBody(n)]
         h == RunHooks("firstByte", q0, dt)
         q1 == AfterHooks(q0, h)
         q2 == [q1 EXCEPT !.sink.marker = TRUE,
                          !.log = Append(@, <<"sink", "marker">>)]
         q3 == [ResponseBranch(q2, status) EXCEPT !.listening = TRUE]
     IN px' = [px EXCEPT ![r] =
                 IF h.threw THEN q1
                 ELSE IF q1.sink.headersSent
                   THEN [q1 EXCEPT !.uncaught = TRUE,
                                   !.log = Append(@, <<"error", "setHeader throws">>)]
                   ELSE q3]

\* pipe(): a chunk of the upstream body after the 'error' listener ran
LateData(r) ==
  /\ ~Crashed /\ px[r].piping /\ px[r].upBody # <<>>
  /\ ~px[r].endFired /\ px[r].errFired
  /\ px' = [px EXCEPT ![r] = [@ EXCEPT
       !.sink = SinkWrite(@, Head(px[r].upBody)),
       !.upBody = Tail(@),
       !.log = Append(@, IF px[r].sink.ended THEN <<"sink", "write after end">>
                         ELSE <<"sink", "write">>)]]
  /\ UNCHANGED now

\* proxyRes 'end' after the 'error' listener ran
LateEnd(r, dt) ==
  /\ ~Crashed /\ px[r].listening /\ px[r].piping /\ px[r].upBody = <<>>
  /\ ~px[r].endFired /\ px[r].errFired
  /\ Advance(dt)
  /\ LET q0 == [px[r] EXCEPT !.endFired = TRUE, !.sink = SinkEnd(@),
                             !.log = Append(@, <<"sink", "end">>)]
     IN px' = [px EXCEPT ![r] = AfterHooks(q0, RunHooks("end", q0, dt))]

NextProxyLate ==
  \/ \E k \in SinkKinds : Dispatch("A", k) /\ UNCHANGED <<bridgeVars, buildVars, traceVars, hookVars, faultVars>>
  \/ ProxyReq("A") /\ UNCHANGED <<bridgeVars, buildVars, traceVars, hookVars, faultVars>>
  \/ \E s \in Statuses, n \in 0..MaxBody, dt \in {0, 1} :
       Response("A", s, n, dt) /\ UNCHANGED <<bridgeVars, buildVars, traceVars, hookVars, faultVars>>
  \/ UpstreamData("A") /\ UNCHANGED <<bridgeVars, buildVars, traceVars, hookVars, faultVars>>
  \/ \E dt \in {0, 1} : UpstreamEnd("A", dt) /\ UNCHANGED <<bridgeVars, buildVars, traceVars, hookVars, faultVars>>
  \/ \E dt \in {0, 1} : UpstreamClose("A", dt) /\ UNCHANGED <<bridgeVars, buildVars, traceVars, hookVars, faultVars>>
  \/ TransportError("A") /\ UNCHANGED <<bridgeVars, buildVars, traceVars, hookVars, faultVars>>
  \/ \E s \in Statuses, n \in 0..MaxBody, dt \in {0, 1} :
       LateResponse("A", s, n, dt) /\ UNCHANGED <<bridgeVars, buildVars, traceVars, hookVars, faultVars>>
  \/ LateData("A") /\ UNCHANGED <<bridgeVars, buildVars, traceVars, hookVars, faultVars>>
  \/ \E dt \in {0, 1} : LateEnd("A", dt) /\ UNCHANGED <<bridgeVars, buildVars, traceVars, hookVars, faultVars>>
  \/ Tick /\ UNCHANGED <<bridgeVars, buildVars, traceVars, hookVars, faultVars>>

SpecProxyLate == Init /\ [][NextProxyLate]_vars

\* the sink holds one answer: nothing, the diagnostic body, the fixed error
\* body, or chunks of the upstream body
OneBody(body) ==
  \/ body = <<>>
  \/ \E s \in Statuses : body = <<Diag(s)>>
  \/ body = <<ErrBody>>
  \/ \A i \in 1..Len(body) : IsUpChunk(body[i])

\* C23: once a sink's headers are out its status never changes and the headers
\* stay out; once it is ended it stays ended with the body it had; and at all
\* times the sink holds one answer only, the status going with it.
C23_SinkWrittenOnce ==
  /\ [][\A r \in Reqs :
          /\ px[r].sink.headersSent =>
               (px'[r].sink.headersSent /\ px'[r].sink.status = px[r].sink.status)
          /\ px[r].sink.ended =>
               (px'[r].sink.ended /\ px'[r].sink.body = px[r].sink.body)]_vars
  /\ [](\A r \in Reqs :
          /\ OneBody(px[r].sink.body)
          /\ px[r].sink.status = ProxyErrorStatus <=> px[r].sink.body = <<ErrBody>>)

\* A transport error struck after a chunk had been piped: the sink keeps its
\* status and the chunk, and has no error body.
C23_Witness ==
  \E r \in Reqs :
    /\ px[r].errFired /\ px[r].piping
    /\ px[r].sink.status = DefaultStatus
    /\ px[r].sink.body # <<>> /\ IsUpChunk(px[r].sink.body[1])

(***************************************************************************)
(* The write side with dests that may complete a write inside their        *)
(* write() call, the completion callback issuing the next _write.          *)
(***************************************************************************)
\* the forEach of addDest over the queue, _dest being set already: each item
\* goes to stream.write; for an item in S the dest calls the callback inside
\* that call and the callback issues _write, which forwards at once
RECURSIVE Replay(_, _, _)
Replay(queue, S, st) ==
  IF queue = <<>> THEN st
  ELSE LET w == Head(queue)
           s1 == [st EXCEPT !.log = Append(@, w)]
           s2 == IF w \in S THEN [s1 EXCEPT !.cb[w] = @ + 1]
                 ELSE [s1 EXCEPT !.inflight = Append(@, w)]
           n == s2.nw + 1
           s3 == IF w \in S /\ s2.nw < MaxWrites /\ wState = "open"
                   THEN [s2 EXCEPT !.nw = n, !.log = Append(@, n),
                                   !.inflight = Append(@, n)]
                   ELSE s2
       IN Replay(Tail(queue), S, s3)

\* addDest(stream) with a dest that completes the writes of S synchronously
AddDestReentrant(d, S) ==
  /\ IF _dest # None
       THEN /\ lastCall' = Call("addDest", "AlreadyAttached")
            /\ UNCHANGED writeSide
       ELSE /\ Len(attachHist) < MaxAttach
            /\ lastCall' = Call("addDest", None)
            /\ _dest' = d
            /\ destL' = destL \cup {d}
            /\ LET st == Replay(_destWritten, S,
                                [log |-> destLog[d], inflight |-> destInflight[d],
                                 cb |-> cbCount, nw |-> nextW])
               IN /\ destLog' = [destLog EXCEPT ![d] = st.log]
                  /\ destInflight' = [destInflight EXCEPT ![d] = st.inflight]
                  /\ cbCount' = st.cb
                  /\ nextW' = st.nw
                  /\ wEpoch' = [w \in 1..MaxWrites |->
                                  IF w > nextW /\ w <= st.nw
                                    THEN Len(attachHist) + 1 ELSE wEpoch[w]]
            /\ _destWritten' = <<>>
            /\ attachHist' = Append(attachHist, d)
            /\ UNCHANGED <<wState, wQueued>>
  /\ UNCHANGED readSide

NextBridgeReplay ==
  \/ Write /\ UNCHANGED <<proxyVars, buildVars, traceVars, hookVars, faultVars>>
  \/ \E d \in Dests : \E S \in SUBSET {_destWritten[i] : i \in 1..Len(_destWritten)} :
       AddDestReentrant(d, S) /\ UNCHANGED <<proxyVars, buildVars, traceVars, hookVars, faultVars>>
  \/ RemoveDest /\ UNCHANGED <<proxyVars, buildVars, traceVars, hookVars, faultVars>>
  \/ BridgeEnd /\ UNCHANGED <<proxyVars, buildVars, traceVars, hookVars, faultVars>>
  \/ Finish /\ UNCHANGED <<proxyVars, buildVars, traceVars, hookVars, faultVars>>
  \/ \E d \in Dests : DestComplete(d) /\ UNCHANGED <<proxyVars, buildVars, traceVars, hookVars, faultVars>>
  \/ \E d \in Dests, ev \in DEST_EVENTS : DestEvent(d, ev) /\ UNCHANGED <<proxyVars, buildVars, traceVars, hookVars, faultVars>>

SpecBridgeReplay == Init /\ [][NextBridgeReplay]_vars

\* C24: each dest receives the writes in the order they were submitted to the
\* bridge: in a dest's log a write submitted later never stands before one
\* submitted earlier, also when a write was issued during addDest's replay.
C24_SubmissionOrderKept ==
  \A d \in Dests : \A i, j \in 1..Len(destLog[d]) :
    (i < j /\ destLog[d][i] # DestEnd /\ destLog[d][j] # DestEnd)
      => destLog[d][i] < destLog[d][j]

====
